---------------------------- MODULE Spec2Model ----------------------------
(***************************************************************************)
(* Model of the derivation enumerator (SemanticsTree.py) and of the        *)
(* composition evaluator (Model.py).                                       *)
(*                                                                         *)
(* A Node is a record [label, children]; children = << >> stands for the   *)
(* Python value None of a leaf (apply_rule and pre_percolate only ever     *)
(* build nodes with a non-empty child list).  A State is a record          *)
(* [constituents, valid_rules]; the entries of valid_rules are the Python  *)
(* pairs (start, end): 0-based, end exclusive.  A sentence is given by the *)
(* list that sentence.split(" ") returns, which is never empty: the empty  *)
(* sentence is << "" >>.                                                   *)
(***************************************************************************)
EXTENDS Integers, Sequences, FiniteSets, TLC

VARIABLES
    rules,            \* the module-level dict default_rewrite_rules
    sentence,         \* sentence.split(" ")
    pre_percolate,    \* the pre_percolate argument
    noded_sentence,   \* the list noded_sentence (constituents of state_0)
    perc_i,           \* the index i of the for loop of pre_percolate (0-based)
    Z,                \* the stack of State objects
    found_trees,      \* set of root Nodes already emitted
    dead_ends,        \* set of memoized States
    valid_trees,      \* the list that is returned
    pc,               \* position of the program
    run,              \* "first" or "second" construction in this process
    first_trees,      \* the forest returned by the first construction
    result            \* outcome of Model.traverse on valid_syntax_trees[0]

vars == << rules, sentence, pre_percolate, noded_sentence,
           perc_i, Z, found_trees, dead_ends, valid_trees, pc, run,
           first_trees, result >>

(***************************************************************************)
(* Bounds of the model.                                                    *)
(***************************************************************************)
\* longest sentence (in tokens) of a call with pre_percolate=True
MaxTokens == 3

\* longest sentence (in tokens) of a call with pre_percolate=False
MaxRawTokens == 2

\* cap on the rewrites of one token in pre_percolate
MaxRewrites == 4

(***************************************************************************)
(* The rule table.                                                         *)
(***************************************************************************)
default_rewrite_rules ==
    ("NP VP" :> "S") @@ ("V_I" :> "VP") @@ ("V_T NP" :> "VP") @@
    ("Q N'" :> "NP") @@ ("PN" :> "NP") @@ ("Adj N'" :> "N'") @@
    ("N" :> "N'") @@ ("S XP" :> "S") @@ ("XP S" :> "S") @@
    ("subord S" :> "XP") @@
    ("albert" :> "PN") @@ ("betty" :> "PN") @@ ("carol" :> "PN") @@
    ("steve" :> "PN") @@ ("oscar" :> "PN") @@ ("mike" :> "PN") @@
    ("jane" :> "PN") @@ ("john" :> "PN") @@
    ("alligator" :> "N") @@ ("dog" :> "N") @@ ("people" :> "N") @@
    ("person" :> "N") @@ ("boy" :> "N") @@ ("cat" :> "N") @@
    ("anxious" :> "Adj") @@ ("big" :> "Adj") @@ ("caring" :> "Adj") @@
    ("ran" :> "V_I") @@ ("run" :> "V_I") @@ ("swam" :> "V_I") @@
    ("cried" :> "V_I") @@
    ("admired" :> "V_T") @@ ("kissed" :> "V_T") @@ ("insulted" :> "V_T") @@
    ("scratched" :> "V_T") @@
    ("if" :> "subord") @@ ("and" :> "coord") @@ ("or" :> "coord") @@
    ("every" :> "Q") @@ ("all" :> "Q") @@ ("some" :> "Q") @@ ("no" :> "Q") @@
    ("most" :> "Q") @@ ("an" :> "Q") @@ ("a" :> "Q") @@ ("one" :> "Q") @@
    ("two" :> "Q") @@ ("three" :> "Q")

coordinatables == {"S", "XP", "NP", "VP", "Adj", "N", "V_I", "V_T", "N'"}

\* the key written with the token instead of its category
CoordKey_and(c) == c \o " and " \o c

CoordKey(c) == c \o " coord " \o c

\* rewrite_rules[f"{c} coord {c}"] = c for every coordinatable c
build_coordination_rules(table) ==
    [k \in DOMAIN table \cup {CoordKey(c) : c \in coordinatables} |->
        IF \E c \in coordinatables : k = CoordKey(c)
        THEN CHOOSE c \in coordinatables : k = CoordKey(c)
        ELSE table[k]]

(***************************************************************************)
(* Python list slicing and str.join.                                       *)
(***************************************************************************)
Max(a, b) == IF a >= b THEN a ELSE b

Min(a, b) == IF a <= b THEN a ELSE b

\* index normalisation of a slice bound: negative counts from the end
SliceIndex(a, n) == IF a < 0 THEN Max(a + n, 0) ELSE Min(a, n)

\* a slice whose negative start is taken as 0 instead of counted from the end
PySlice_from_zero(s, a, b) ==
    LET lo == Min(Max(a, 0), Len(s))
        hi == SliceIndex(b, Len(s))
    IN  IF lo >= hi THEN << >> ELSE SubSeq(s, lo + 1, hi)

\* s[a:b]
PySlice(s, a, b) ==
    LET lo == SliceIndex(a, Len(s))
        hi == SliceIndex(b, Len(s))
    IN  IF lo >= hi THEN << >> ELSE SubSeq(s, lo + 1, hi)

\* s[a:b] = repl
SliceAssign(s, a, b, repl) ==
    LET lo == SliceIndex(a, Len(s))
        hi == Max(SliceIndex(b, Len(s)), lo)
    IN  SubSeq(s, 1, lo) \o repl \o SubSeq(s, hi + 1, Len(s))

RECURSIVE JoinFrom(_, _, _)
\* the items k, k+1, ... of strs with sep between them
JoinFrom(sep, strs, k) ==
    IF k > Len(strs) THEN ""
    ELSE IF k = Len(strs) THEN strs[k]
    ELSE strs[k] \o sep \o JoinFrom(sep, strs, k + 1)

\* sep.join(strs); the list is evaluated once, as a bound value
JoinWith(sep, strs) == CHOOSE r \in {JoinFrom(sep, s, 1) : s \in {strs}} : TRUE

Labels(nodes) == [k \in DOMAIN nodes |-> nodes[k].label]

(***************************************************************************)
(* Node.                                                                   *)
(***************************************************************************)
\* Node.__init__ that does not keep the children
Node_childless(label, children) == [label |-> label, children |-> << >>]

Node(label, children) == [label |-> label, children |-> children]

Leaf(label) == Node(label, << >>)

RECURSIVE struct_string(_)
struct_string(n) ==
    IF n.children # << >>
    THEN "[" \o JoinWith("", [k \in DOMAIN n.children |->
                                 struct_string(n.children[k])]) \o "]"
    ELSE "[]"

RECURSIVE inorder_string(_)
inorder_string(n) ==
    IF n.children # << >>
    THEN n.label \o "," \o JoinWith(",", [k \in DOMAIN n.children |->
                                            inorder_string(n.children[k])])
    ELSE n.label

RECURSIVE latex_string(_)
latex_string(n) ==
    IF n.children # << >>
    THEN "[ " \o n.label \o " "
         \o JoinWith(" ", [k \in DOMAIN n.children |->
                              latex_string(n.children[k])]) \o " ]"
    ELSE "[ " \o n.label \o " ]"

\* Node without __eq__: objects compare by identity, and the Nodes of two
\* States are never the same object (apply_rule deep-copies)
NodeEqIdentity(a, b) == FALSE

RECURSIVE NodeEq(_, _)
\* Node.__eq__
NodeEq(a, b) ==
    IF a.label # b.label THEN FALSE
    ELSE IF \/ (a.children # << >> /\ b.children = << >>)
            \/ (a.children = << >> /\ b.children # << >>)
         THEN FALSE
    ELSE IF a.children # << >> /\ b.children # << >>
         THEN IF Len(a.children) # Len(b.children) THEN FALSE
              ELSE \A k \in DOMAIN a.children :
                       NodeEq(a.children[k], b.children[k])
    ELSE TRUE

RECURSIVE Depth(_)
\* number of wrappers pre_percolate has put around a token
Depth(n) == IF n.children = << >> THEN 0 ELSE 1 + Depth(n.children[1])

\* Node.__hash__
NodeHash(n) == struct_string(n)

\* n in s, for a Python set s of Nodes: same hash and __eq__
NodeIn(n, s) == \E t \in s : NodeHash(t) = NodeHash(n) /\ NodeEq(t, n)

(***************************************************************************)
(* State.                                                                  *)
(***************************************************************************)
RECURSIVE SpanRows(_, _, _)
\* the pairs (j - (i + 1), j) in the order the two for loops visit them
SpanRows(i, widths, n) ==
    IF i >= widths THEN << >>
    ELSE [k \in 1..(n + 1 - i) |-> << (i + k - 1) - (i + 1), i + k - 1 >>]
         \o SpanRows(i + 1, widths, n)

\* get_valid_rules that scans the widths 1 and 2 only
get_valid_rules_narrow(constituents, table) ==
    LET n == Len(constituents)
        widths == IF n >= 2 THEN 2 ELSE n
        possible_rule(p) ==
            JoinWith(" ", Labels(PySlice(constituents, p[1], p[2])))
        Matches(p) == possible_rule(p) \in DOMAIN table
    IN  SelectSeq(SpanRows(0, widths, n), Matches)

\* State.get_valid_rules
get_valid_rules(constituents, table) ==
    LET n == Len(constituents)
        widths == IF n >= 3 THEN 3 ELSE n
        possible_rule(p) ==
            JoinWith(" ", Labels(PySlice(constituents, p[1], p[2])))
        Matches(p) == possible_rule(p) \in DOMAIN table
    IN  SelectSeq(SpanRows(0, widths, n), Matches)

\* State.__init__
State(constituents, table) ==
    [constituents |-> constituents,
     valid_rules  |-> get_valid_rules(constituents, table)]

\* has_valid_rules with the comparison off by one
has_valid_rules_off(self) == Len(self.valid_rules) > 1

\* State.has_valid_rules
has_valid_rules(self) == Len(self.valid_rules) > 0

\* the list emptied instead of popped once
PopSpan_all(self) == [self EXCEPT !.valid_rules = << >>]

\* self.valid_rules.pop(): what is left in self
PopSpan(self) ==
    [self EXCEPT !.valid_rules = SubSeq(@, 1, Len(@) - 1)]

\* apply_rule that replaces one constituent more than it wraps
apply_rule_wide(self, table) ==
    LET span == self.valid_rules[Len(self.valid_rules)]
        i == span[1]
        j == span[2]
        rewritten == JoinWith(" ", Labels(PySlice(self.constituents, i, j)))
        new_constituents ==
            SliceAssign(self.constituents, i, j + 1,
                << Node(table[rewritten], PySlice(self.constituents, i, j)) >>)
    IN  State(new_constituents, table)

\* State.apply_rule: the State that is returned
apply_rule(self, table) ==
    LET span == self.valid_rules[Len(self.valid_rules)]
        i == span[1]
        j == span[2]
        rewritten == JoinWith(" ", Labels(PySlice(self.constituents, i, j)))
        new_constituents ==
            SliceAssign(self.constituents, i, j,
                << Node(table[rewritten], PySlice(self.constituents, i, j)) >>)
    IN  State(new_constituents, table)

\* State.__eq__
StateEq(a, b) ==
    IF Len(a.constituents) = Len(b.constituents)
    THEN \A k \in DOMAIN a.constituents :
             NodeEq(a.constituents[k], b.constituents[k])
    ELSE FALSE

\* State.__hash__
StateHash(s) ==
    JoinWith(",", [k \in DOMAIN s.constituents |->
                      inorder_string(s.constituents[k])])

\* st in s, for a Python set s of States
StateIn(st, s) == \E t \in s : StateHash(t) = StateHash(st) /\ StateEq(t, st)

\* s.add(st), for a Python set s of States
StateSetAdd(s, st) == IF StateIn(st, s) THEN s ELSE s \cup {st}

\* s.add(n), for a Python set s of Nodes
NodeSetAdd(s, n) == IF NodeIn(n, s) THEN s ELSE s \cup {n}

\* the loop without its Z.pop()
PopForgotten(stack) == stack

\* Z.pop(): what is left of Z
Pop(stack) == SubSeq(stack, 1, Len(stack) - 1)

(***************************************************************************)
(* Model.py: semantic values, the interpretation g and traverse.           *)
(* A value is an individual (a str), a bool, a Node, or one of the lambdas *)
(* that the gen_* methods build; a raised exception is a "raise" record.   *)
(***************************************************************************)
domain == {"a", "b", "c", "j", "m", "s", "x", "y", "z"}

runners == {"x", "y", "j"}

admired == {<<"j", "m">>, <<"s", "m">>, <<"a", "b">>, <<"b", "c">>}

Ind(x) == [kind |-> "ind", v |-> x]

Bool(b) == [kind |-> "bool", b |-> b]

NodeVal(n) == [kind |-> "node", node |-> n]

\* gen_noun_func / gen_intrans_verb_func: lambda x: x in the_set
Pred(ext) == [kind |-> "pred", ext |-> ext]

\* lambda y: lambda x: (y, x) in verb_set
Rel_object_first(ext) ==
    [kind |-> "rel", ext |-> {<< q[2], q[1] >> : q \in ext}]

\* gen_trans_verb_func: lambda y: lambda x: (x, y) in verb_set
Rel(ext) == [kind |-> "rel", ext |-> ext]

\* len(ch(s1) & ch(s2)) > num, as the docstring of gen_quant_func_num says
Quant_more_than(num) == [kind |-> "quant", num |-> num + 1]

\* gen_quant_func_num: lambda s1: lambda s2: len(ch(s1) & ch(s2)) >= num
Quant(num) == [kind |-> "quant", num |-> num]

Raise(exc) == [kind |-> "raise", exc |-> exc]

IsRaise(v) == v.kind = "raise"

Callable(v) == v.kind \in {"pred", "rel", "rel1", "quant", "quant1"}

\* bool(v) of a value returned by a call
Truthy(v) == IF v.kind = "bool" THEN v.b ELSE TRUE

RECURSIVE Apply(_, _)
RECURSIVE ch(_)
\* Model.ch: {x for x in self.domain if f(x)}
ch(f) ==
    IF ~Callable(f) THEN Raise("TypeError")
    ELSE LET res == [d \in domain |-> Apply(f, Ind(d))]
         IN  IF \E d \in domain : IsRaise(res[d]) THEN Raise("TypeError")
             ELSE [kind |-> "set", elems |-> {d \in domain : Truthy(res[d])}]

\* the Python call f(x)
Apply(f, x) ==
    CASE f.kind = "pred" -> Bool(x.kind = "ind" /\ x.v \in f.ext)
      [] f.kind = "rel" -> [kind |-> "rel1", ext |-> f.ext, y |-> x]
      [] f.kind = "rel1" ->
            Bool(x.kind = "ind" /\ f.y.kind = "ind"
                 /\ << x.v, f.y.v >> \in f.ext)
      [] f.kind = "quant" -> [kind |-> "quant1", num |-> f.num, s1 |-> x]
      [] f.kind = "quant1" ->
            LET c1 == ch(f.s1)
            IN  IF IsRaise(c1) THEN c1
                ELSE LET c2 == ch(x)
                     IN  IF IsRaise(c2) THEN c2
                         ELSE Bool(Cardinality(c1.elems \cap c2.elems)
                                     >= f.num)
      [] OTHER -> Raise("TypeError")

\* Model.g
g ==
    ("albert" :> Ind("a")) @@ ("betty" :> Ind("b")) @@ ("carol" :> Ind("c")) @@
    ("steve" :> Ind("s")) @@ ("jane" :> Ind("j")) @@ ("mike" :> Ind("m")) @@
    ("people" :> Pred({"a", "b", "c", "s", "j", "m"})) @@
    ("person" :> Pred({"a", "b", "c", "s", "j", "m"})) @@
    ("cat" :> Pred({"x", "y", "z"})) @@
    ("admired" :> Rel(admired)) @@
    ("ran" :> Pred(runners)) @@
    ("a" :> Quant(1)) @@ ("three" :> Quant(3))

\* the two calls tried in the other order
ComposeRightFirst(label, left, right) ==
    LET lr == Apply(left, right)
        rl == Apply(right, left)
    IN  IF ~IsRaise(rl) THEN rl
        ELSE IF ~IsRaise(lr) THEN lr
        ELSE [kind |-> "raise", exc |-> "ValueError", label |-> label,
              left |-> left, right |-> right]

\* the try / except of traverse around left(right) and right(left)
Compose(label, left, right) ==
    LET lr == Apply(left, right)
        rl == Apply(right, left)
    IN  IF ~IsRaise(lr) THEN lr
        ELSE IF ~IsRaise(rl) THEN rl
        ELSE [kind |-> "raise", exc |-> "ValueError", label |-> label,
              left |-> left, right |-> right]

RECURSIVE traverse(_)
\* Model.traverse
traverse(tree_node) ==
    IF tree_node.children # << >>
    THEN IF Len(tree_node.children) = 1
         THEN traverse(tree_node.children[1])
         ELSE IF Len(tree_node.children) = 2
         THEN LET left == traverse(tree_node.children[1])
              IN  IF IsRaise(left) THEN left
                  ELSE LET right == traverse(tree_node.children[2])
                       IN  IF IsRaise(right) THEN right
                           ELSE Compose(tree_node.label, left, right)
         ELSE NodeVal(tree_node)
    ELSE IF tree_node.label \in DOMAIN g
         THEN g[tree_node.label]
         ELSE [kind |-> "raise", exc |-> "KeyError", key |-> tree_node.label]

\* a Python str
Str(s) == [kind |-> "str", v |-> s]

NoResult == [kind |-> "none"]

\* evaluate without the test of num_trees, returning None for no tree
evaluate_unchecked(trees) ==
    IF Len(trees) = 0 THEN NoResult
    ELSE traverse(trees[1])

\* evaluate, after Parser(sentence) has returned
evaluate(trees) ==
    IF Len(trees) = 0 THEN [kind |-> "raise", exc |-> "ValueError",
                            label |-> "No valid trees found."]
    ELSE traverse(trees[1])

\* print_tree, after Parser(sentence) has returned
print_tree(trees) ==
    IF Len(trees) = 0 THEN [kind |-> "raise", exc |-> "ValueError",
                            label |-> "No valid trees found."]
    ELSE Str(latex_string(trees[1]))

(***************************************************************************)
(* Inputs.                                                                 *)
(***************************************************************************)
Vocab == {"jane", "ran", "admired", "and", "a", "person", "foo", "NP"}

\* the tokens of the sentences of the runs checked for termination
LiveVocab == {"jane", "ran", "admired", "and", "foo"}

\* proper names of the rule table used in the longer sentences
ProperNames == {"jane", "mike"}

\* the sentences 'P1 and P2 and P3 admired P4'
CoordSentences ==
    { << q[1], "and", q[2], "and", q[3], "admired", q[4] >> :
          q \in ProperNames \X ProperNames \X ProperNames \X ProperNames }

\* intransitive verbs of the rule table
IntransVerbs == {"ran", "swam"}

\* the sentences '<proper name> <intransitive verb>'
NameVerbSentences ==
    { << q[1], q[2] >> : q \in ProperNames \X IntransVerbs }

\* proper names that Model.g maps to individuals
EvalNames == {"albert", "betty", "jane", "mike"}

\* the sentences '<name> admired <name>'
AdmiredSentences ==
    { << q[1], "admired", q[2] >> : q \in EvalNames \X EvalNames }

\* the sentences '<numeric quantifier> <noun> ran'
QuantSentences ==
    { << q[1], q[2], "ran" >> :
          q \in {"a", "three"} \X {"person", "people", "cat"} }

LongSentences ==
    { << "jane", "admired", "mike" >>,
      << "mike", "admired", "jane" >>,
      << "jane", "and", "mike", "ran" >>,
      << "jane", "ran", "and", "ran" >>,
      << "a", "person", "admired", "mike" >>,
      << "jane", "and", "mike", "and", "jane" >>,
      << "PN", "V_I" >>,
      << "" >>,
      << "N", "and", "N" >>,
      << "jane", "and", "mike", "and", "jane", "admired", "mike" >> }
    \cup CoordSentences
    \cup NameVerbSentences
    \cup AdmiredSentences
    \cup QuantSentences

SentencesUpTo(n) == UNION {[1..k -> Vocab] : k \in 1..n}

(***************************************************************************)
(* The program.                                                            *)
(***************************************************************************)
Init ==
    /\ rules = default_rewrite_rules
    /\ sentence \in SentencesUpTo(MaxTokens) \cup LongSentences
    /\ pre_percolate \in BOOLEAN
    /\ pre_percolate \/ Len(sentence) <= MaxRawTokens
    /\ noded_sentence = << >>
    /\ perc_i = 0
    /\ Z = << >>
    /\ found_trees = {}
    /\ dead_ends = {}
    /\ valid_trees = << >>
    /\ pc = "start"
    /\ run = "first"
    /\ first_trees = << >>
    /\ result = NoResult

\* found_trees kept from the previous call instead of a new set
EnterLoopStale(constituents, table) ==
    /\ Z' = << State(constituents, table) >>
    /\ found_trees' = found_trees
    /\ dead_ends' = {}
    /\ valid_trees' = << >>
    /\ pc' = "loop"

\* lines 225-230: state_0 and the empty sets, list and stack
EnterLoop(constituents, table) ==
    /\ Z' = << State(constituents, table) >>
    /\ found_trees' = {}
    /\ dead_ends' = {}
    /\ valid_trees' = << >>
    /\ pc' = "loop"

\* SemanticsTree.__init__ (build_coordination_rules) and the first lines of
\* generate_all_valid_syntax_trees, up to the call of pre_percolate
Begin ==
    /\ pc = "start"
    /\ rules' = build_coordination_rules(rules)
    /\ noded_sentence' = [k \in DOMAIN sentence |-> Leaf(sentence[k])]
    /\ perc_i' = 0
    /\ IF pre_percolate
       THEN /\ pc' = "percolate"
            /\ UNCHANGED << Z, found_trees, dead_ends, valid_trees >>
       ELSE EnterLoop(noded_sentence', rules')
    /\ UNCHANGED << sentence, pre_percolate, run, first_trees, result >>

\* pre_percolate: one turn of the while loop
PercolateRewrite ==
    /\ pc = "percolate"
    /\ perc_i < Len(noded_sentence)
    /\ noded_sentence[perc_i + 1].label \in DOMAIN rules
    /\ Depth(noded_sentence[perc_i + 1]) < MaxRewrites
    /\ noded_sentence' =
           [noded_sentence EXCEPT ![perc_i + 1] =
               Node(rules[@.label], << @ >>)]
    /\ UNCHANGED << rules, sentence, pre_percolate, perc_i, Z, found_trees,
                    dead_ends, valid_trees, pc, run, first_trees, result >>

\* pre_percolate with an if instead of the while: the for loop can go to the
\* next token while the label is still a key
PercolateNext_if ==
    /\ pc = "percolate"
    /\ perc_i < Len(noded_sentence)
    /\ perc_i' = perc_i + 1
    /\ UNCHANGED << rules, sentence, pre_percolate, noded_sentence, Z,
                    found_trees, dead_ends, valid_trees, pc, run,
                    first_trees, result >>

\* pre_percolate: the while loop ends, the for loop goes to the next token
PercolateNext ==
    /\ pc = "percolate"
    /\ perc_i < Len(noded_sentence)
    /\ noded_sentence[perc_i + 1].label \notin DOMAIN rules
    /\ perc_i' = perc_i + 1
    /\ UNCHANGED << rules, sentence, pre_percolate, noded_sentence, Z,
                    found_trees, dead_ends, valid_trees, pc, run,
                    first_trees, result >>

\* pre_percolate returns
PercolateReturn ==
    /\ pc = "percolate"
    /\ perc_i = Len(noded_sentence)
    /\ EnterLoop(noded_sentence, rules)
    /\ UNCHANGED << rules, sentence, pre_percolate, noded_sentence, perc_i,
                    run, first_trees, result >>

top == Z[Len(Z)]

CanExpand(st) == ~StateIn(st, dead_ends) /\ has_valid_rules(st)

\* Z.pop() and the test of the while loop
PopAndTest ==
    /\ Z' = Pop(Z)
    /\ pc' = IF Len(Z') > 0 THEN "loop" ELSE "done"

\* the if branch: apply one of the valid rules and push the new State
Push ==
    /\ pc = "loop"
    /\ CanExpand(top)
    /\ Z' = Append([Z EXCEPT ![Len(Z)] = PopSpan(top)], apply_rule(top, rules))
    /\ UNCHANGED << rules, sentence, pre_percolate, noded_sentence, perc_i,
                    found_trees, dead_ends, valid_trees, pc, run,
                    first_trees, result >>

\* the elif branch: the top has one constituent
EmitRoot ==
    /\ pc = "loop"
    /\ ~CanExpand(top)
    /\ Len(top.constituents) = 1
    /\ LET contender == top.constituents[1]
       IN  IF ~NodeIn(contender, found_trees)
           THEN /\ valid_trees' = Append(valid_trees, contender)
                /\ found_trees' = NodeSetAdd(found_trees, contender)
           ELSE UNCHANGED << valid_trees, found_trees >>
    /\ PopAndTest
    /\ UNCHANGED << rules, sentence, pre_percolate, noded_sentence, perc_i,
                    dead_ends, run, first_trees, result >>

\* the else branch: memoize the State
DeadEnd ==
    /\ pc = "loop"
    /\ ~CanExpand(top)
    /\ Len(top.constituents) # 1
    /\ dead_ends' = StateSetAdd(dead_ends, top)
    /\ PopAndTest
    /\ UNCHANGED << rules, sentence, pre_percolate, noded_sentence, perc_i,
                    found_trees, valid_trees, run, first_trees, result >>

\* Model.evaluate on the forest that was returned
Evaluate ==
    /\ pc = "done"
    /\ result' = evaluate(valid_trees)
    /\ pc' = "evaluated"
    /\ UNCHANGED << rules, sentence, pre_percolate, noded_sentence, perc_i,
                    Z, found_trees, dead_ends, valid_trees, run, first_trees >>

\* Model.print_tree on the forest that was returned
PrintTree ==
    /\ pc = "done"
    /\ result' = print_tree(valid_trees)
    /\ pc' = "printed"
    /\ UNCHANGED << rules, sentence, pre_percolate, noded_sentence, perc_i,
                    Z, found_trees, dead_ends, valid_trees, run, first_trees >>

\* the caller constructs a second SemanticsTree for the same sentence
\* (main: print_tree(s) after evaluate(s))
Reconstruct ==
    /\ pc = "evaluated"
    /\ run = "first"
    /\ run' = "second"
    /\ first_trees' = valid_trees
    /\ pc' = "start"
    /\ UNCHANGED << rules, sentence, pre_percolate, noded_sentence, perc_i,
                    Z, found_trees, dead_ends, valid_trees, result >>

Next ==
    \/ Begin
    \/ PercolateRewrite
    \/ PercolateNext
    \/ PercolateReturn
    \/ Push
    \/ EmitRoot
    \/ DeadEnd
    \/ Evaluate
    \/ PrintTree
    \/ Reconstruct

Spec == Init /\ [][Next]_vars

\* the runs checked for termination: the sentences over LiveVocab and the
\* long sentences
InitLive ==
    /\ Init
    /\ \/ sentence \in LongSentences
       \/ \A k \in DOMAIN sentence : sentence[k] \in LiveVocab

\* the loop is single-threaded and never waits: a step that can be taken is
\* taken
FairSpec == InitLive /\ [][Next]_vars /\ WF_vars(Next)

(***************************************************************************)
(* Percolation on its own: pre_percolate(noded_sentence, rewrite_rules)    *)
(* called with a table of length-1 rules, cyclic or not.                   *)
(***************************************************************************)
PercVocab == {"A", "B", "w"}

PercTables ==
    { ("A" :> "B") @@ ("B" :> "A"),
      ("A" :> "A"),
      ("A" :> "B") @@ ("B" :> "C") @@ ("C" :> "A"),
      ("w" :> "A") @@ ("A" :> "B") }

InitPerc ==
    /\ rules \in PercTables
    /\ sentence \in UNION {[1..k -> PercVocab] : k \in 1..MaxRawTokens}
    /\ pre_percolate = TRUE
    /\ noded_sentence = [k \in DOMAIN sentence |-> Leaf(sentence[k])]
    /\ perc_i = 0
    /\ Z = << >>
    /\ found_trees = {}
    /\ dead_ends = {}
    /\ valid_trees = << >>
    /\ pc = "percolate"
    /\ run = "first"
    /\ first_trees = << >>
    /\ result = NoResult

NextPerc ==
    \/ PercolateRewrite
    \/ PercolateNext
    \/ PercolateReturn

SpecPerc == InitPerc /\ [][NextPerc]_vars

(***************************************************************************)
(* Definitions used to state the properties.                               *)
(***************************************************************************)
SetOf(seq) == {seq[k] : k \in DOMAIN seq}

\* the spans (start, end) of width 1..3 whose joined labels are a key
MatchingSpans(cs, table) ==
    {p \in (0..Len(cs)) \X (0..Len(cs)) :
        /\ p[2] - p[1] \in {1, 2, 3}
        /\ JoinWith(" ", Labels(SubSeq(cs, p[1] + 1, p[2]))) \in DOMAIN table}

\* cs with the span p replaced by one Node that wraps it
Collapse(cs, p, table) ==
    SubSeq(cs, 1, p[1])
    \o << Node(table[JoinWith(" ", Labels(SubSeq(cs, p[1] + 1, p[2])))],
               SubSeq(cs, p[1] + 1, p[2])) >>
    \o SubSeq(cs, p[2] + 1, Len(cs))

Successors(cs, table) ==
    {Collapse(cs, p, table) : p \in MatchingSpans(cs, table)}

RECURSIVE Reach(_, _, _)
\* all constituent lists reachable by span collapses
Reach(frontier, seen, table) ==
    IF frontier = {} THEN seen
    ELSE LET new == UNION {Successors(cs, table) : cs \in frontier} \ seen
         IN  Reach(new, seen \cup new, table)

ReachableRoots(cs, table) ==
    {c[1] : c \in {d \in Reach({cs}, {cs}, table) : Len(d) = 1}}

RECURSIVE SubNodes(_)
SubNodes(n) ==
    {n} \cup UNION {SubNodes(n.children[k]) : k \in DOMAIN n.children}

HasWideNode(n) == \E m \in SubNodes(n) : Len(m.children) > 2

\* number of distinct labels of a table of length-1 rules
NumLabels(table) ==
    Cardinality(DOMAIN table \cup {table[k] : k \in DOMAIN table})

\* the percolated constituents of a proper name, of 'and' and of a
\* transitive verb
Tree(label, children) == [label |-> label, children |-> children]

NameNP(p) == Tree("NP", << Tree("PN", << Tree(p, << >>) >>) >>)

CoordOf(w) == Tree("coord", << Tree(w, << >>) >>)

VerbT(w) == Tree("V_T", << Tree(w, << >>) >>)

VerbI(w) == Tree("VP", << Tree("V_I", << Tree(w, << >>) >>) >>)

\* S[ NP VP[ V_T NP ] ]
Clause(subject, verb, object) ==
    Tree("S", << subject, Tree("VP", << VerbT(verb), NameNP(object) >>) >>)

\* the two bracketings of 'p1 and p2 and p3'
GroupLeft(p1, p2, p3) ==
    Tree("NP", << Tree("NP", << NameNP(p1), CoordOf("and"), NameNP(p2) >>),
                  CoordOf("and"), NameNP(p3) >>)

GroupRight(p1, p2, p3) ==
    Tree("NP", << NameNP(p1), CoordOf("and"),
                  Tree("NP", << NameNP(p2), CoordOf("and"), NameNP(p3) >>) >>)

RECURSIVE Flatten(_)
\* the concatenation of a sequence of sequences
Flatten(seqs) ==
    IF seqs = << >> THEN << >>
    ELSE seqs[1] \o Flatten(SubSeq(seqs, 2, Len(seqs)))

RECURSIVE Yield(_)
\* the labels of the leaves of n, left to right
Yield(n) ==
    IF n.children = << >> THEN << n.label >>
    ELSE Flatten([k \in DOMAIN n.children |-> Yield(n.children[k])])

\* the leaves of a list of constituents, left to right
YieldOf(cs) == Flatten([k \in DOMAIN cs |-> Yield(cs[k])])

\* every non-leaf Node of n is labelled with the table's value for the
\* space-joined labels of its children
WellLabelled(n, table) ==
    \A m \in SubNodes(n) :
        m.children # << >> =>
            LET key == JoinWith(" ", [k \in DOMAIN m.children |->
                                        m.children[k].label])
            IN  key \in DOMAIN table /\ m.label = table[key]

\* child is parent with one span of 1..3 constituents replaced by a Node that
\* wraps them, and is the same outside the span
IsCollapseOf(child, parent) ==
    \E start \in 0..Len(parent) : \E w \in 1..3 :
        /\ start + w <= Len(parent)
        /\ Len(child) = Len(parent) - w + 1
        /\ \A k \in 1..start : child[k] = parent[k]
        /\ child[start + 1].children = SubSeq(parent, start + 1, start + w)
        /\ \A k \in (start + 2)..Len(child) : child[k] = parent[k + w - 1]

(***************************************************************************)
(* Properties.                                                             *)
(***************************************************************************)
\* C1: when generate_all_valid_syntax_trees (pre_percolate=True) returns, the
\* roots in valid_trees are exactly the roots of the single-constituent
\* States reachable from the percolated initial State by span collapses:
\* none is missing and none is unreachable.
C1_ForestIsComplete ==
    (pc = "done" /\ pre_percolate)
        => SetOf(valid_trees) = ReachableRoots(noded_sentence, rules)

\* an ambiguous sentence: two roots returned, after States were memoized
C1_Witness ==
    /\ pc = "done"
    /\ pre_percolate
    /\ Len(valid_trees) = 2
    /\ dead_ends # {}
    /\ SetOf(valid_trees) = ReachableRoots(noded_sentence, rules)

\* C2: at every step of the enumeration and in the returned list,
\* valid_trees holds no two structurally equal Nodes.
C2_NoDuplicateTrees ==
    \A i, j \in DOMAIN valid_trees :
        i # j => valid_trees[i] # valid_trees[j]

\* a bracketing reached again by another order of collapses, after a root
\* has been emitted
C2_Witness ==
    /\ pc = "loop"
    /\ StateIn(top, dead_ends)
    /\ has_valid_rules(top)
    /\ valid_trees # << >>

\* C3: a sentence with a token that is no key of the rule table yields an
\* empty forest.
C3_UnknownTokenEmptyForest ==
    (pc = "done" /\ \E k \in DOMAIN sentence : sentence[k] \notin DOMAIN rules)
        => valid_trees = << >>

\* C4: every returned root, alone in a fresh State, has no applicable span
\* (for both values of pre_percolate).
C4_RootsHaveNoSpans ==
    pc = "done"
        => \A k \in DOMAIN valid_trees :
               State(<< valid_trees[k] >>, rules).valid_rules = << >>

\* C5: Model.traverse never returns a value for a tree that holds a Node with
\* more than two children: the evaluation fails.
C5_WideNodeFails ==
    (pc = "evaluated" /\ valid_trees # << >> /\ HasWideNode(valid_trees[1]))
        => IsRaise(result)

\* C6: for a two-child Node whose children evaluate to left and right,
\* traverse returns left(right) when that call succeeds, right(left) only
\* when left(right) fails, and when both fail it raises an error that names
\* the Node's label and both operands.
C6_LeftAppliedFirst ==
    pc = "evaluated" =>
        \A t \in SetOf(valid_trees) : \A n \in SubNodes(t) :
            Len(n.children) = 2 =>
                LET left == traverse(n.children[1])
                    right == traverse(n.children[2])
                IN  (~IsRaise(left) /\ ~IsRaise(right)) =>
                        traverse(n) =
                            IF ~IsRaise(Apply(left, right))
                            THEN Apply(left, right)
                            ELSE IF ~IsRaise(Apply(right, left))
                            THEN Apply(right, left)
                            ELSE [kind |-> "raise", exc |-> "ValueError",
                                  label |-> n.label, left |-> left,
                                  right |-> right]

\* a two-child root for which both orders succeed and differ: the result is
\* left(right)
C6_Witness ==
    /\ pc = "evaluated"
    /\ valid_trees # << >>
    /\ Len(valid_trees[1].children) = 2
    /\ LET left == traverse(valid_trees[1].children[1])
           right == traverse(valid_trees[1].children[2])
       IN  /\ ~IsRaise(left)
           /\ ~IsRaise(right)
           /\ ~IsRaise(Apply(left, right))
           /\ ~IsRaise(Apply(right, left))
           /\ Apply(left, right) # Apply(right, left)
           /\ result = Apply(left, right)

\* C7: under the default rule table the enumeration loop terminates: once
\* entered, the stack eventually becomes empty and the forest is returned.
C7_EnumerationTerminates == (pc = "loop") ~> (pc = "done" /\ Z = << >>)

\* the loop has ended after States were pushed, memoized and a root emitted
C7_Witness ==
    /\ pc = "done"
    /\ Z = << >>
    /\ dead_ends # {}
    /\ valid_trees # << >>

\* C8: pre_percolate rewrites a token at most as many times as the table
\* has distinct labels.
C8_PercolationBounded ==
    \A k \in DOMAIN noded_sentence :
        Depth(noded_sentence[k]) <= NumLabels(rules)

C10_SameForestTwice ==
    (pc = "done" /\ run = "second")
        => SetOf(valid_trees) = SetOf(first_trees)

\* the second run has returned a forest built with a coordination rule
C10_Witness ==
    /\ pc = "done"
    /\ run = "second"
    /\ valid_trees # << >>
    /\ HasWideNode(valid_trees[1])
    /\ SetOf(valid_trees) = SetOf(first_trees)

\* C11: for a sentence 'P1 and P2 and P3 admired P4' over proper names the
\* enumeration returns exactly two trees, both with root S: the one that
\* groups (P1 and P2) first and the one that groups (P2 and P3) first; the
\* other orders of the same collapses add no tree.
C11_TwoBracketings ==
    (pc = "done" /\ sentence \in CoordSentences) =>
        /\ Len(valid_trees) = 2
        /\ \A k \in DOMAIN valid_trees : valid_trees[k].label = "S"
        /\ SetOf(valid_trees) =
               { Clause(GroupLeft(sentence[1], sentence[3], sentence[5]),
                        sentence[6], sentence[7]),
                 Clause(GroupRight(sentence[1], sentence[3], sentence[5]),
                        sentence[6], sentence[7]) }

\* the two trees have been returned, and a State reached by another order of
\* collapses was found memoized on the way
C11_Witness ==
    /\ pc = "done"
    /\ sentence \in CoordSentences
    /\ Len(valid_trees) = 2
    /\ valid_trees[1] # valid_trees[2]
    /\ Cardinality(dead_ends) > 2

\* C12: for a sentence '<proper name> <intransitive verb>' the enumeration
\* returns exactly one root, equal to S[ NP[ PN[ name ] ] VP[ V_I[ verb ] ] ].
C12_OneTreeForNameVerb ==
    (pc = "done" /\ sentence \in NameVerbSentences) =>
        valid_trees =
            << Tree("S", << NameNP(sentence[1]), VerbI(sentence[2]) >>) >>

\* the forest of such a sentence has been returned, with its one root
C12_Witness ==
    /\ pc = "done"
    /\ pre_percolate
    /\ sentence \in NameVerbSentences
    /\ Len(valid_trees) = 1
    /\ Len(valid_trees[1].children) = 2

\* C13: for proper names s and o that g maps to individuals, the tree of
\* 's admired o' evaluates to true iff (g(s), g(o)), subject first, is in the
\* admired relation: 'jane admired mike' is true, 'mike admired jane' false.
C13_SubjectFirst ==
    (pc = "evaluated" /\ sentence \in AdmiredSentences) =>
        /\ result = Bool(<< g[sentence[1]].v, g[sentence[3]].v >> \in admired)
        /\ sentence = << "jane", "admired", "mike" >> => result = Bool(TRUE)
        /\ sentence = << "mike", "admired", "jane" >> => result = Bool(FALSE)

\* 'mike admired jane' has been evaluated to false, the inverse pair being
\* in the relation
C13_Witness ==
    /\ pc = "evaluated"
    /\ sentence = << "mike", "admired", "jane" >>
    /\ Len(valid_trees) = 1
    /\ << "j", "m" >> \in admired
    /\ result = Bool(FALSE)

C15_TableNeverMutated == [][rules' = rules]_vars

\* C16 as stated: evaluate and print_tree raise exactly when the returned
\* forest is empty.
C16_RaiseIffEmpty ==
    pc \in {"evaluated", "printed"}
        => (IsRaise(result) <=> valid_trees = << >>)

\* C16 amended: the enumeration returns an empty list without raising;
\* evaluate and print_tree raise ValueError("No valid trees found.") exactly
\* when the forest is empty; print_tree raises in no other case and returns
\* the LaTeX string of the first tree; evaluate can also raise from traverse
\* on the first tree of a forest that is not empty (KeyError, ValueError).
C16_EmptyForestError ==
    LET NoTrees == [kind |-> "raise", exc |-> "ValueError",
                    label |-> "No valid trees found."]
    IN  /\ pc \in {"evaluated", "printed"}
               => (result = NoTrees <=> valid_trees = << >>)
        /\ (pc = "printed" /\ valid_trees # << >>)
               => (result.kind = "str" /\ ~IsRaise(result))
        /\ (pc = "evaluated" /\ valid_trees # << >> /\ IsRaise(result))
               => /\ result.exc \in {"KeyError", "ValueError"}
                  /\ result = traverse(valid_trees[1])

\* the enumeration has returned an empty forest and evaluate has raised
C16_Witness ==
    /\ pc = "evaluated"
    /\ valid_trees = << >>
    /\ IsRaise(result)
    /\ result.exc = "ValueError"

\* C17: in every State of the stack and in every root returned, the leaves
\* read left to right are the tokens of the sentence in their order, and
\* every non-leaf Node is labelled with the rule-table value for the
\* space-joined labels of its children; each State of the stack is the State
\* below it with one span collapsed and nothing changed outside the span.
C17_TreesSpellSentence ==
    /\ \A k \in DOMAIN Z :
          /\ YieldOf(Z[k].constituents) = sentence
          /\ \A c \in SetOf(Z[k].constituents) : WellLabelled(c, rules)
    /\ \A k \in DOMAIN valid_trees :
          /\ Yield(valid_trees[k]) = sentence
          /\ WellLabelled(valid_trees[k], rules)
    /\ \A k \in 1..(Len(Z) - 1) :
          IsCollapseOf(Z[k + 1].constituents, Z[k].constituents)

\* a span in the middle of the constituents has been collapsed: the child
\* keeps a constituent on each side of the new Node
C17_Witness ==
    /\ pc = "loop"
    /\ Len(Z) >= 2
    /\ Len(sentence) >= 4
    /\ YieldOf(top.constituents) = sentence
    /\ \E k \in 2..(Len(top.constituents) - 1) :
          /\ top.constituents[k] \notin SetOf(Z[Len(Z) - 1].constituents)
          /\ top.constituents[k - 1] \in SetOf(Z[Len(Z) - 1].constituents)
          /\ top.constituents[k + 1] \in SetOf(Z[Len(Z) - 1].constituents)

\* C18: for the constituents of a State (n >= 1), get_valid_rules returns
\* exactly the pairs (start, end) with 0 <= start < end <= n, end - start in
\* {1,2,3} and the space-joined labels of constituents[start:end] a key of
\* the table, each once: the slices with a negative start add no span, no
\* duplicate and no pair out of range.
C18_ExactSpansOnce ==
    \A k \in DOMAIN Z :
        LET cs == Z[k].constituents
            n == Len(cs)
            spans == get_valid_rules(cs, rules)
        IN  n >= 1 =>
              /\ SetOf(spans) = MatchingSpans(cs, rules)
              /\ Len(spans) = Cardinality(SetOf(spans))
              /\ \A p \in SetOf(spans) :
                    /\ 0 <= p[1] /\ p[1] < p[2] /\ p[2] <= n
                    /\ p[2] - p[1] \in {1, 2, 3}

\* a State of five constituents with spans of two different widths, for
\* which the loop also sliced from the start index -1
C18_Witness ==
    /\ pc = "loop"
    /\ Len(top.constituents) >= 5
    /\ \E p, q \in SetOf(get_valid_rules(top.constituents, rules)) :
          p[2] - p[1] = 2 /\ q[2] - q[1] = 3
    /\ \E r \in SetOf(SpanRows(0, 3, Len(top.constituents))) : r[1] < 0

C20_StackStrictlyShrinks ==
    /\ \A k \in 1..(Len(Z) - 1) :
          Len(Z[k + 1].constituents) < Len(Z[k].constituents)
    /\ Len(Z) <= Len(sentence)

\* C20 amended: a collapse of a span (start, end) gives a child State with
\* end - start - 1 constituents fewer than its parent, never more; after
\* pre-percolation (pre_percolate=True, as the constructor calls the
\* enumeration) every collapsed span is wider than 1, so the counts strictly
\* decrease from the bottom of the stack to its top and the stack is never
\* deeper than the sentence has tokens.
C20_ShrinksWhenPercolated ==
    /\ \A k \in 1..(Len(Z) - 1) :
          /\ Len(Z[k + 1].constituents) <= Len(Z[k].constituents)
          /\ Len(Z[k].constituents) - Len(Z[k + 1].constituents) \in {0, 1, 2}
    /\ pre_percolate =>
          /\ \A k \in 1..(Len(Z) - 1) :
                Len(Z[k + 1].constituents) < Len(Z[k].constituents)
          /\ Len(Z) <= Len(sentence)

\* after pre-percolation, a stack of three States or more over a sentence of
\* five tokens or more, with strictly decreasing counts
C20_Witness ==
    /\ pc = "loop"
    /\ pre_percolate
    /\ Len(sentence) >= 5
    /\ Len(Z) >= 3
    /\ \A k \in 1..(Len(Z) - 1) :
          Len(Z[k + 1].constituents) < Len(Z[k].constituents)

=============================================================================
